---- MODULE Spec2Model ----
(***************************************************************************)
(* Model of synthea/ContextManager.py: ReplyChainIterator (the reply-chain *)
(* traversal) and ContextManager.compile_chat_history (the token-budgeted  *)
(* history compiler) with _get_text and read_attachment.                   *)
(*                                                                         *)
(* Text is a sequence of one-character strings, so that len(), lower(),    *)
(* startswith(), isspace() and concatenation are computed as Python does.  *)
(* An Optional value is a sequence of length <= 1: <<>> is None.           *)
(***************************************************************************)
EXTENDS Integers, Sequences, FiniteSets, TLC

\* ------------------------------------------------------------------ bounds

\* Largest message id of the channel; a reply refers to a smaller id, so this
\* is also the longest reply chain.
MaxId == 3

\* ------------------------------------------------- configuration, constants

EST_CHARS_PER_TOKEN == 3

\* Config().context_length and Config().max_new_tokens.
context_length == 68
max_new_tokens == 8

\* Config().command_start_str
command_start_str == <<"!", "c">>

\* SyntheaClient.SYSTEM_TAG, the footer of the bot's system announcements.
SYSTEM_TAG == "system"

\* ContextManager.bot_user_id, and the id of a human author.
bot_user_id == 1
human_user_id == 2

None == <<>>
Some(v) == <<v>>

\* ------------------------------------------------------------ text helpers

\* A text of n copies of the character c.
Rep(c, n) == [i \in 1..n |-> c]

\* str.lower() on one character of the model's alphabet.
LowerChar(c) ==
    CASE c = "C" -> "c"
      [] c = "S" -> "s"
      [] c = "A" -> "a"
      [] c = "H" -> "h"
      [] OTHER -> c

\* str.lower()
Lower(s) == [i \in 1..Len(s) |-> LowerChar(s[i])]

\* str.startswith(prefix)
StartsWith(s, prefix) ==
    /\ Len(s) >= Len(prefix)
    /\ SubSeq(s, 1, Len(prefix)) = prefix

\* str.isspace(): non-empty and whitespace only.
IsSpace(s) ==
    /\ Len(s) > 0
    /\ \A i \in 1..Len(s) : s[i] \in {" ", "\n", "\t"}

\* len(text) // EST_CHARS_PER_TOKEN
Tokens(text) == Len(text) \div EST_CHARS_PER_TOKEN

\* message.clean_content.lower().startswith(config.command_start_str.lower())
IsCommand(m) == StartsWith(Lower(m.clean_content), Lower(command_start_str))

\* ----------------------------------------------------------- command parser

RECURSIVE LStrip(_)
\* The text without its leading blanks.
LStrip(s) == IF Len(s) > 0 /\ s[1] = " " THEN LStrip(Tail(s)) ELSE s

\* ChatbotParser.parse(text) for a text that begins with the command prefix:
\* the words after the prefix are an optional flag "-s" (use the prompt as the
\* system prompt) and the prompt; any other option is rejected.
Parse(text) ==
    LET rest == LStrip(SubSeq(text, Len(command_start_str) + 1, Len(text)))
    IN  IF Len(rest) > 0 /\ rest[1] = "-"
        THEN IF StartsWith(rest, <<"-", "s">>)
             THEN [ok |-> TRUE, use_as_system_prompt |-> TRUE,
                   prompt |-> LStrip(SubSeq(rest, 3, Len(rest)))]
             ELSE [ok |-> FALSE, use_as_system_prompt |-> FALSE, prompt |-> <<>>]
        ELSE [ok |-> TRUE, use_as_system_prompt |-> FALSE, prompt |-> rest]

\* The ParsedArgs object of a successful parse.
ParsedArgs(text) ==
    [prompt |-> Parse(text).prompt,
     use_as_system_prompt |-> Parse(text).use_as_system_prompt]

\* ------------------------------------------------------------- attachments

\* "\n\nA file was attached to this message, but it is either empty or is
\* not a file type you can read."
NoteUnreadable == <<
    "\n", "\n", "A", " ", "f", "i", "l", "e", " ", "w", "a", "s",
    " ", "a", "t", "t", "a", "c", "h", "e", "d", " ", "t", "o",
    " ", "t", "h", "i", "s", " ", "m", "e", "s", "s", "a", "g",
    "e", ",", " ", "b", "u", "t", " ", "i", "t", " ", "i", "s",
    " ", "e", "i", "t", "h", "e", "r", " ", "e", "m", "p", "t",
    "y", " ", "o", "r", " ", "i", "s", " ", "n", "o", "t", " ",
    "a", " ", "f", "i", "l", "e", " ", "t", "y", "p", "e", " ",
    "y", "o", "u", " ", "c", "a", "n", " ", "r", "e", "a", "d",
    "." >>

\* "\n\nA file was attached to this message, but it was too large to be read."
NoteTooLarge == <<
    "\n", "\n", "A", " ", "f", "i", "l", "e", " ", "w", "a", "s",
    " ", "a", "t", "t", "a", "c", "h", "e", "d", " ", "t", "o",
    " ", "t", "h", "i", "s", " ", "m", "e", "s", "s", "a", "g",
    "e", ",", " ", "b", "u", "t", " ", "i", "t", " ", "w", "a",
    "s", " ", "t", "o", "o", " ", "l", "a", "r", "g", "e", " ",
    "t", "o", " ", "b", "e", " ", "r", "e", "a", "d", "." >>

\* "\n\nA file was attached to this message. Here are the contents:\n"
NoteContents == <<
    "\n", "\n", "A", " ", "f", "i", "l", "e", " ", "w", "a", "s",
    " ", "a", "t", "t", "a", "c", "h", "e", "d", " ", "t", "o",
    " ", "t", "h", "i", "s", " ", "m", "e", "s", "s", "a", "g",
    "e", ".", " ", "H", "e", "r", "e", " ", "a", "r", "e", " ",
    "t", "h", "e", " ", "c", "o", "n", "t", "e", "n", "t", "s",
    ":", "\n" >>

\* "Message from "
MessageFrom == <<
    "M", "e", "s", "s", "a", "g", "e", " ", "f", "r", "o", "m",
    " " >>

RECURSIVE JoinPages(_)
\* attachment_string = attachment_string + "\n" + page_text, over the pages.
JoinPages(pages) ==
    IF pages = <<>> THEN <<>>
    ELSE JoinPages(SubSeq(pages, 1, Len(pages) - 1)) \o <<"\n">> \o pages[Len(pages)]

IsTextType(ct) == ct = "" \/ ct \in {"text/plain", "text/markdown"}
IsPdfType(ct) == ct = "application/pdf"

\* read_attachment: the text of an attachment, or the exception that escapes
\* it; saved is the set of files it has saved and not removed when it ends.
\* A text attachment is decoded (bytes.decode() raises on undecodable bytes);
\* a PDF is saved under its filename, read page by page and removed (the
\* removal is the last statement, so an unreadable PDF stays on disk).
read_attachment(a) ==
    IF IsTextType(a.content_type)
    THEN IF a.decodable
         THEN [raised |-> FALSE, text |-> a.text, saved |-> {}]
         ELSE [raised |-> TRUE, text |-> <<>>, saved |-> {}]
    ELSE IF IsPdfType(a.content_type)
    THEN IF a.readable
         THEN [raised |-> FALSE, text |-> JoinPages(a.pages), saved |-> {}]
         ELSE [raised |-> TRUE, text |-> <<>>, saved |-> {a.filename}]
    ELSE [raised |-> FALSE, text |-> <<>>, saved |-> {}]

\* Mutant: the characters, not the tokens, are compared with the budget.
AttachmentNoteByChars(content, remaining_tokens) ==
    IF content = <<>> \/ IsSpace(content) THEN NoteUnreadable
    ELSE IF Len(content) > remaining_tokens THEN NoteTooLarge
    ELSE NoteContents \o content

\* The text _get_text appends for one attachment whose content was read.
AttachmentNote(content, remaining_tokens) ==
    IF content = <<>> \/ IsSpace(content) THEN NoteUnreadable
    ELSE IF Tokens(content) > remaining_tokens THEN NoteTooLarge
    ELSE NoteContents \o content

\* The base text of a message in _get_text, before the attachments.
BaseText(m) ==
    IF m.author = bot_user_id /\ m.embeds # <<>>
    THEN m.embeds[1].description
    ELSE IF IsCommand(m)
    THEN IF Parse(m.clean_content).ok
         THEN Parse(m.clean_content).prompt
         ELSE m.clean_content
    ELSE m.clean_content

RECURSIVE AppendAttachments(_, _, _)
\* The loop of _get_text over message.attachments, from the text so far.
AppendAttachments(text, atts, remaining_tokens) ==
    IF atts = <<>> THEN [raised |-> FALSE, text |-> text, saved |-> {}]
    ELSE LET r == read_attachment(atts[1])
         IN  IF r.raised THEN [raised |-> TRUE, text |-> text, saved |-> r.saved]
             ELSE AppendAttachments(text \o AttachmentNote(r.text, remaining_tokens),
                                    Tail(atts), remaining_tokens)

\* _get_text(message, remaining_tokens): the text and its tokens, or raised.
GetText(m, remaining_tokens) ==
    LET r == AppendAttachments(BaseText(m), m.attachments, remaining_tokens)
    IN  [raised |-> r.raised, text |-> r.text, tokens |-> Tokens(r.text),
         saved |-> r.saved]

\* ------------------------------------------------------- messages (inputs)

\* An attachment record.
Attachment(content_type, filename, decodable, text, readable, pages) ==
    [content_type |-> content_type, filename |-> filename,
     decodable |-> decodable, text |-> text,
     readable |-> readable, pages |-> pages]

TextFile == Attachment("text/plain", "notes.txt", TRUE, <<"d", "o", "c">>, TRUE, <<>>)
CorruptPdf == Attachment("application/pdf", "paper.pdf", TRUE, <<>>, FALSE, <<>>)

\* A text file of 50 tokens, a text file of blanks, a file with no content
\* type whose bytes are not text, a picture, and a PDF of two pages.
LargeTextFile == Attachment("text/markdown", "big.md", TRUE, Rep("d", 150), TRUE, <<>>)
BlankTextFile == Attachment("text/plain", "blank.txt", TRUE, <<" ", "\n">>, TRUE, <<>>)
UndecodableFile == Attachment("", "blob", FALSE, <<>>, TRUE, <<>>)
Picture == Attachment("image/png", "pic.png", TRUE, <<>>, TRUE, <<>>)
GoodPdf ==
    Attachment("application/pdf", "book.pdf", TRUE, <<>>, TRUE,
               << <<"p", "1">>, <<"p", "2">> >>)

\* What a message carries besides its id and its reply reference.
Shape(author, display_name, clean_content, embeds, attachments) ==
    [author |-> author, display_name |-> display_name,
     clean_content |-> clean_content, embeds |-> embeds,
     attachments |-> attachments]

Human(clean_content, attachments) ==
    Shape(human_user_id, <<"A", "l">>, clean_content, <<>>, attachments)

Bot(clean_content, embeds) ==
    Shape(bot_user_id, <<"S", "y", "n">>, clean_content, embeds, <<>>)

Embed(description, footer) == [description |-> description, footer |-> footer]

\* Plain messages of a human: short, long, empty and blank.
PlainShapes ==
    { Human(<<"h", "e", "y">>, <<>>),
      Human(Rep("a", 60), <<>>),
      Human(<<>>, <<>>),
      Human(<<" ">>, <<>>) }

\* Commands: without the flag, with the flag (two prompts, one in upper case
\* prefix), with the flag and no prompt, and one the parser rejects.
CommandShapes ==
    { Human(<<"!", "c", " ", "h", "i", "!">>, <<>>),
      Human(<<"!", "C", " ", "-", "s", " ", "B", "e", "A">>, <<>>),
      Human(<<"!", "c", " ", "-", "s", " ", "B", "e", "H">>, <<>>),
      Human(<<"!", "c", " ", "-", "s">>, <<>>),
      Human(<<"!", "c", " ", "-", "x">>, <<>>) }

\* Messages with a file: a readable text file, a PDF that cannot be opened.
AttachmentShapes ==
    { Human(<<"s", "e", "e">>, <<TextFile>>),
      Human(<<>>, <<CorruptPdf>>) }

\* More messages with files: a large text file, a blank one, one that
\* cannot be decoded, a readable PDF, and a text file with a picture.
MoreAttachmentShapes ==
    { Human(<<"s", "e", "e">>, <<LargeTextFile>>),
      Human(<<>>, <<BlankTextFile>>),
      Human(<<>>, <<UndecodableFile>>),
      Human(<<>>, <<GoodPdf>>),
      Human(<<"s", "e", "e">>, <<TextFile, Picture>>) }

\* Messages of the bot: plain, speaking as a character (an embed), and a
\* system announcement (an embed with the system tag as footer).
BotShapes ==
    { Bot(<<"o", "k", "!">>, <<>>),
      Bot(<<>>, <<Embed(<<"H", "i", ".">>, "")>>),
      Bot(<<>>, <<Embed(<<"S", "e", "t">>, SYSTEM_TAG)>>) }

Shapes ==
    PlainShapes \cup CommandShapes \cup AttachmentShapes
        \cup MoreAttachmentShapes \cup BotShapes

\* A discord.Message: reference is None or the id of the message replied to.
Message(id, reference, shape) ==
    [id |-> id, reference |-> reference, author |-> shape.author,
     display_name |-> shape.display_name,
     clean_content |-> shape.clean_content, embeds |-> shape.embeds,
     attachments |-> shape.attachments]

\* The reply references a message with this id may hold: none, or an older
\* message (reply chains are acyclic: a reply refers to a smaller id).
References(id) == {None} \cup {Some(r) : r \in 1..(id - 1)}

\* The messages the channel may hold under an id.
ChannelMessages(id) ==
    {Message(id, ref, shape) : ref \in References(id), shape \in Shapes}

\* The default system prompts a caller may pass: 2, 15 and 62 tokens (the
\* last one alone exceeds history_token_limit). The caller passes a string:
\* with None, len() at line 141 raises before the loop starts.
DefaultPrompts == {Rep("S", 6), Rep("S", 45), Rep("S", 186)}

\* ------------------------------------------------------------------- state

VARIABLES
    starting_message,       \* the argument of ReplyChainIterator.__init__
    message,                \* ReplyChainIterator.message, the loop's message
    message_index,          \* ReplyChainIterator.message_index
    default_system_prompt,  \* the argument of compile_chat_history
    token_count,            \* locals of compile_chat_history
    args,
    system_prompt,
    messages,
    pc,                     \* where compile_chat_history stands
    exception,              \* the exception that escaped it, or None
    files,                  \* the files read_attachment left on disk
    yielded,                \* history: the messages __anext__ returned
    outcomes,               \* history: what the body did with each of them
    fetches                 \* history: the fetch_message calls and results

vars == <<starting_message, message, message_index, default_system_prompt, token_count, args,
          system_prompt, messages, pc, exception, files, yielded, outcomes,
          fetches>>

\* history_token_limit = config.context_length - config.max_new_tokens
history_token_limit == context_length - max_new_tokens

\* Python truth of an Optional[str]: neither None nor "".
Truthy(opt) == opt # None /\ opt[1] # <<>>

\* Mutant: the entry is appended.
InsertBack(list, entry) == Append(list, entry)

\* messages.insert(0, entry)
InsertFront(list, entry) == <<entry>> \o list

Init ==
    /\ starting_message \in ChannelMessages(MaxId)
    /\ message = starting_message
    /\ message_index = 0
    /\ default_system_prompt \in DefaultPrompts
    /\ token_count = 0
    /\ args = None
    /\ system_prompt = None
    /\ messages = <<>>
    /\ pc = "start"
    /\ exception = None
    /\ files = {}
    /\ yielded = <<>>
    /\ outcomes = <<>>
    /\ fetches = <<>>

\* ------------------------------------------------- ReplyChainIterator

\* Mutant: the message before it in the channel is fetched.
FetchPrevious(m) == m.id - 1

\* Mutant: the iterator fetches the message it already holds.
FetchSelf(m) == m.id

\* The id fetch_message is asked for when following the reply reference.
FetchTarget(m) == m.reference[1]

\* __anext__, first call: the starting message itself.
AnextFirst ==
    /\ pc = "anext"
    /\ message_index = 0
    /\ message_index' = message_index + 1
    /\ yielded' = Append(yielded, message)
    /\ pc' = "body"
    /\ UNCHANGED <<starting_message, message, default_system_prompt, token_count, args,
                   system_prompt, messages, exception, files, outcomes, fetches>>

\* __anext__, later calls: the message has a reference and the fetch succeeds.
AnextFetched ==
    /\ pc = "anext"
    /\ message_index # 0
    /\ message.reference # None
    /\ message_index' = message_index + 1
    /\ \E m \in ChannelMessages(FetchTarget(message)) :
          /\ message' = m
          /\ yielded' = Append(yielded, m)
    /\ fetches' = Append(fetches, [by |-> "iterator", id |-> FetchTarget(message), ok |-> TRUE])
    /\ pc' = "body"
    /\ UNCHANGED <<starting_message, default_system_prompt, token_count, args,
                   system_prompt, messages, exception, files, outcomes>>

\* Mutant: the exception of the fetch is not caught.
AnextFetchRaises ==
    /\ pc = "anext"
    /\ message_index # 0
    /\ message.reference # None
    /\ message_index' = message_index + 1
    /\ fetches' = Append(fetches, [by |-> "iterator", id |-> FetchTarget(message), ok |-> FALSE])
    /\ pc' = "raised"
    /\ exception' = Some("NotFound")
    /\ UNCHANGED <<starting_message, message, default_system_prompt, token_count,
                   args, system_prompt, messages, files, yielded, outcomes>>

\* __anext__, later calls: the fetch raises NotFound, HTTPException or
\* Forbidden, which becomes StopAsyncIteration: the loop ends.
AnextFetchFailed ==
    /\ pc = "anext"
    /\ message_index # 0
    /\ message.reference # None
    /\ message_index' = message_index + 1
    /\ fetches' = Append(fetches, [by |-> "iterator", id |-> FetchTarget(message), ok |-> FALSE])
    /\ pc' = "after_loop"
    /\ UNCHANGED <<starting_message, message, default_system_prompt, token_count, args,
                   system_prompt, messages, exception, files, yielded, outcomes>>

\* __anext__, later calls: no reference, StopAsyncIteration.
AnextNoReference ==
    /\ pc = "anext"
    /\ message_index # 0
    /\ message.reference = None
    /\ pc' = "after_loop"
    /\ UNCHANGED <<starting_message, message, message_index, default_system_prompt, token_count,
                   args, system_prompt, messages, exception, files, yielded,
                   outcomes, fetches>>

\* ------------------------------------------------ compile_chat_history

\* Lines 140-142: the default system prompt's tokens are counted first.
Begin ==
    /\ pc = "start"
    /\ token_count' = token_count + Tokens(default_system_prompt)
    /\ pc' = "anext"
    /\ UNCHANGED <<starting_message, message, message_index, default_system_prompt, args,
                   system_prompt, messages, exception, files, yielded,
                   outcomes, fetches>>

\* parser.parse raises on the loop's message (the call is not guarded).
ParseRaises(m) == IsCommand(m) /\ ~Parse(m.clean_content).ok

\* Mutant: every command replaces the active command.
ArgsAfterLastWins(m) ==
    IF IsCommand(m) THEN Some(ParsedArgs(m.clean_content)) ELSE args

\* args after "if not args: args = message_args" (a ParsedArgs object is
\* true in Python, so only None is replaced).
ArgsAfter(m) ==
    IF IsCommand(m) /\ args = None THEN Some(ParsedArgs(m.clean_content)) ELSE args

\* "if not system_prompt and args.use_as_system_prompt", inside the command
\* branch: the flag read is the one of args, the chain's active command.
CapturesSystemPrompt(m) ==
    /\ IsCommand(m)
    /\ ~Truthy(system_prompt)
    /\ ArgsAfter(m)[1].use_as_system_prompt

\* The call of _get_text on the loop's message.
Extracted(m) == GetText(m, history_token_limit - token_count)

\* "if not args and message.author.id == self.bot_user_id": the message is
\* fetched again by its own id.
Refetches(m) == ArgsAfter(m) = None /\ m.author = bot_user_id

\* The fetch log after the body's fetch of the message itself, if any.
FetchesAfter(m, ok) ==
    IF Refetches(m) THEN Append(fetches, [by |-> "body", id |-> m.id, ok |-> ok]) ELSE fetches

\* Mutant: the announcement is filtered whatever args is.
IsAnnouncementAlways(m) ==
    /\ m.author = bot_user_id
    /\ m.embeds # <<>>
    /\ m.embeds[1].footer = SYSTEM_TAG

\* The re-fetched message is the message itself: full_message.embeds is not
\* empty and embeds[0].footer.text is the system tag.
IsAnnouncement(m) ==
    /\ Refetches(m)
    /\ m.embeds # <<>>
    /\ m.embeds[1].footer = SYSTEM_TAG

\* Mutant: only a missing text counts as empty.
IsEmptyTextNone(text) == FALSE

\* "if not text"
IsEmptyText(text) == text = <<>>

\* Mutant: the check forgets the tokens already counted.
OverflowsIgnoringCount(added_tokens) == added_tokens > history_token_limit

\* "if added_tokens + token_count > history_token_limit"
Overflows(added_tokens) == added_tokens + token_count > history_token_limit

\* Mutant: the author is compared the wrong way round.
EntryRolesSwapped(m, text) ==
    IF m.author # bot_user_id
    THEN [role |-> "assistant", content |-> text]
    ELSE [role |-> "user",
          content |-> MessageFrom \o m.display_name \o <<" ", "\n", " ">> \o text]

\* The entry inserted for an accepted message.
Entry(m, text) ==
    IF m.author = bot_user_id
    THEN [role |-> "assistant", content |-> text]
    ELSE [role |-> "user",
          content |-> MessageFrom \o m.display_name \o <<" ", "\n", " ">> \o text]

\* The body reaches _get_text: no parse error, no captured system prompt.
ReachesGetText(m) ==
    /\ ~ParseRaises(m)
    /\ ~CapturesSystemPrompt(m)

\* The body reaches the emptiness check with the message not filtered out.
ReachesEmptyCheck(m) ==
    /\ ReachesGetText(m)
    /\ ~Extracted(m).raised
    /\ ~IsAnnouncement(m)

\* Line 147: the parser rejects the command and the exception escapes.
BodyParseError ==
    /\ pc = "body"
    /\ ParseRaises(message)
    /\ pc' = "raised"
    /\ exception' = Some("CommandError")
    /\ outcomes' = Append(outcomes, "raise")
    /\ UNCHANGED <<starting_message, message, message_index, default_system_prompt, token_count,
                   args, system_prompt, messages, files, yielded, fetches>>

\* Mutant: the directive is captured but the continue is missing, so the
\* message is also counted and inserted.
BodySystemPromptNoContinue ==
    /\ pc = "body"
    /\ ~ParseRaises(message)
    /\ CapturesSystemPrompt(message)
    /\ args' = ArgsAfter(message)
    /\ system_prompt' = Some(ArgsAfter(message)[1].prompt)
    /\ messages' = InsertFront(messages, Entry(message, Extracted(message).text))
    /\ token_count' = token_count + Extracted(message).tokens
    /\ pc' = "anext"
    /\ outcomes' = Append(outcomes, "system_prompt")
    /\ UNCHANGED <<starting_message, message, message_index, default_system_prompt,
                   exception, files, yielded, fetches>>

\* Lines 148-152: the active command's prompt becomes the system prompt and
\* the message is skipped.
BodySystemPrompt ==
    /\ pc = "body"
    /\ ~ParseRaises(message)
    /\ CapturesSystemPrompt(message)
    /\ args' = ArgsAfter(message)
    /\ system_prompt' = Some(ArgsAfter(message)[1].prompt)
    /\ pc' = "anext"
    /\ outcomes' = Append(outcomes, "system_prompt")
    /\ UNCHANGED <<starting_message, message, message_index, default_system_prompt, token_count,
                   messages, exception, files, yielded, fetches>>

\* Line 153: read_attachment raises inside _get_text and nothing catches it.
BodyAttachmentError ==
    /\ pc = "body"
    /\ ReachesGetText(message)
    /\ Extracted(message).raised
    /\ args' = ArgsAfter(message)
    /\ files' = files \cup Extracted(message).saved
    /\ pc' = "raised"
    /\ exception' = Some("AttachmentError")
    /\ outcomes' = Append(outcomes, "raise")
    /\ UNCHANGED <<starting_message, message, message_index, default_system_prompt, token_count,
                   system_prompt, messages, yielded, fetches>>

\* Lines 156-160: the fetch of the bot's own message raises.
BodyRefetchFailed ==
    /\ pc = "body"
    /\ ReachesGetText(message)
    /\ ~Extracted(message).raised
    /\ Refetches(message)
    /\ args' = ArgsAfter(message)
    /\ fetches' = FetchesAfter(message, FALSE)
    /\ pc' = "raised"
    /\ exception' = Some("HTTPException")
    /\ outcomes' = Append(outcomes, "raise")
    /\ UNCHANGED <<starting_message, message, message_index, default_system_prompt, token_count,
                   system_prompt, messages, files, yielded>>

\* Lines 162-165: a system announcement of the bot is skipped.
BodyAnnouncement ==
    /\ pc = "body"
    /\ ReachesGetText(message)
    /\ ~Extracted(message).raised
    /\ IsAnnouncement(message)
    /\ args' = ArgsAfter(message)
    /\ fetches' = FetchesAfter(message, TRUE)
    /\ pc' = "anext"
    /\ outcomes' = Append(outcomes, "announcement")
    /\ UNCHANGED <<starting_message, message, message_index, default_system_prompt, token_count,
                   system_prompt, messages, exception, files, yielded>>

\* Lines 168-169: a message with no text is skipped.
BodyEmpty ==
    /\ pc = "body"
    /\ ReachesEmptyCheck(message)
    /\ IsEmptyText(Extracted(message).text)
    /\ args' = ArgsAfter(message)
    /\ fetches' = FetchesAfter(message, TRUE)
    /\ pc' = "anext"
    /\ outcomes' = Append(outcomes, "empty")
    /\ UNCHANGED <<starting_message, message, message_index, default_system_prompt, token_count,
                   system_prompt, messages, exception, files, yielded>>

\* Mutant: the message is skipped and the loop goes on.
BodyBreakContinues ==
    /\ pc = "body"
    /\ ReachesEmptyCheck(message)
    /\ ~IsEmptyText(Extracted(message).text)
    /\ Overflows(Extracted(message).tokens)
    /\ args' = ArgsAfter(message)
    /\ fetches' = FetchesAfter(message, TRUE)
    /\ pc' = "anext"
    /\ outcomes' = Append(outcomes, "break")
    /\ UNCHANGED <<starting_message, message, message_index, default_system_prompt,
                   token_count, system_prompt, messages, exception, files, yielded>>

\* Lines 172-173: the message would overflow the budget, the loop ends.
BodyBreak ==
    /\ pc = "body"
    /\ ReachesEmptyCheck(message)
    /\ ~IsEmptyText(Extracted(message).text)
    /\ Overflows(Extracted(message).tokens)
    /\ args' = ArgsAfter(message)
    /\ fetches' = FetchesAfter(message, TRUE)
    /\ pc' = "after_loop"
    /\ outcomes' = Append(outcomes, "break")
    /\ UNCHANGED <<starting_message, message, message_index, default_system_prompt, token_count,
                   system_prompt, messages, exception, files, yielded>>

\* Lines 176-181: the message is accepted.
BodyAccept ==
    /\ pc = "body"
    /\ ReachesEmptyCheck(message)
    /\ ~IsEmptyText(Extracted(message).text)
    /\ ~Overflows(Extracted(message).tokens)
    /\ args' = ArgsAfter(message)
    /\ fetches' = FetchesAfter(message, TRUE)
    /\ messages' = InsertFront(messages, Entry(message, Extracted(message).text))
    /\ token_count' = token_count + Extracted(message).tokens
    /\ pc' = "anext"
    /\ outcomes' = Append(outcomes, "accept")
    /\ UNCHANGED <<starting_message, message, message_index, default_system_prompt,
                   system_prompt, exception, files, yielded>>

\* Mutant: the override is tested against None, not for truth.
SystemContentIfNotNone ==
    IF system_prompt # None THEN system_prompt[1] ELSE default_system_prompt

\* The content of the system entry.
SystemContent ==
    IF Truthy(system_prompt) THEN system_prompt[1] ELSE default_system_prompt

\* Lines 184-186: the system entry is inserted first and the list returned.
Finish ==
    /\ pc = "after_loop"
    /\ messages' = InsertFront(messages, [role |-> "system", content |-> SystemContent])
    /\ pc' = "returned"
    /\ UNCHANGED <<starting_message, message, message_index, default_system_prompt, token_count,
                   args, system_prompt, exception, files, yielded, outcomes,
                   fetches>>

Next ==
    \/ Begin
    \/ AnextFirst
    \/ AnextFetched
    \/ AnextFetchFailed
    \/ AnextNoReference
    \/ BodyParseError
    \/ BodySystemPrompt
    \/ BodyAttachmentError
    \/ BodyRefetchFailed
    \/ BodyAnnouncement
    \/ BodyEmpty
    \/ BodyBreak
    \/ BodyAccept
    \/ Finish

Spec == Init /\ [][Next]_vars

\* The event loop runs the coroutine whenever it can take a step: every
\* await of the pass is on a fetch or a read that completes or raises.
FairSpec == Spec /\ WF_vars(Next)

\* ------------------------------------------------------ history helpers

\* The indices of the visited messages the body has dealt with.
Visited == 1..Len(outcomes)

\* The visited messages that were accepted, in the order of their visit.
AcceptedVisits ==
    LET IsAccepted(i) == outcomes[i] = "accept"
    IN  SelectSeq([i \in 1..Len(outcomes) |-> i], IsAccepted)

\* The conversational entries of the list (the system entry comes with the
\* return).
Conversation == IF pc = "returned" THEN Tail(messages) ELSE messages

\* The outcome of the last visited message is tag.
LastOutcomeIs(tag) == outcomes # <<>> /\ outcomes[Len(outcomes)] = tag

\* An entry is the one the accept step makes of message m, for some
\* remaining budget.
ComesFrom(entry, m) ==
    \E r \in 0..history_token_limit : entry = Entry(m, GetText(m, r).text)

\* ---------------------------------------------------------------- claims

\* C1: whenever a message is accepted (an entry is inserted in the pass) the
\* running token_count after adding its extracted tokens is at most
\* history_token_limit; token_count starts at the estimate of the default
\* system prompt and changes only by the extracted tokens of an accepted
\* message.
C1_TokenBudget ==
    [][ /\ (pc = "start" /\ pc' # "start")
            => token_count' = Tokens(default_system_prompt)
        /\ (pc # "start" /\ Len(messages') > Len(messages) /\ pc' # "returned")
            => /\ token_count' = token_count + Extracted(message).tokens
               /\ token_count' <= history_token_limit
        /\ (pc # "start" /\ token_count' # token_count)
            => /\ Len(messages') = Len(messages) + 1
               /\ token_count' > token_count
               /\ token_count' <= history_token_limit ]_vars

\* C1 witness: messages were accepted and the pass then stopped at one that
\* would have exceeded the limit.
C1_Witness ==
    /\ pc = "returned"
    /\ Len(AcceptedVisits) >= 2
    /\ LastOutcomeIs("break")
    /\ token_count > Tokens(default_system_prompt)

\* C2 as stated: the returned list has exactly one system entry, at index 0,
\* whose content is the override system prompt if one was captured during
\* the pass and the default otherwise.
C2_Original ==
    pc = "returned" =>
        /\ messages # <<>>
        /\ messages[1].role = "system"
        /\ \A i \in 2..Len(messages) : messages[i].role # "system"
        /\ messages[1].content =
              IF system_prompt # None THEN system_prompt[1]
              ELSE default_system_prompt

\* C2 amended: the returned list has exactly one system entry, at index 0,
\* whose content is the captured override system prompt if it is not empty,
\* and the default system prompt otherwise (also when the captured prompt is
\* the empty string).
C2_SystemEntry ==
    pc = "returned" =>
        /\ messages # <<>>
        /\ messages[1].role = "system"
        /\ \A i \in 2..Len(messages) : messages[i].role # "system"
        /\ (system_prompt # None /\ system_prompt[1] # <<>>)
              => messages[1].content = system_prompt[1]
        /\ (system_prompt = None \/ system_prompt[1] = <<>>)
              => messages[1].content = default_system_prompt

\* C2 witness: a list was returned with a captured, non-empty override and
\* conversational entries after it.
C2_Witness ==
    /\ pc = "returned"
    /\ system_prompt # None
    /\ system_prompt[1] # <<>>
    /\ messages[1].content # default_system_prompt
    /\ Len(messages) >= 3

\* Three messages were visited, all plain messages of a human: no command,
\* no attachment.
ThreePlainMessages ==
    /\ Len(yielded) = 3
    /\ \A i \in 1..3 :
          /\ yielded[i].author = human_user_id
          /\ ~IsCommand(yielded[i])
          /\ yielded[i].attachments = <<>>

\* C3: the conversational entries are in oldest-to-newest order: they are
\* the entries of the accepted visited messages, one each, in the reverse of
\* the order of the visits; three accepted human messages visited C, B, A
\* give [system, A, B, C].
C3_OldestFirst ==
    /\ Len(Conversation) = Len(AcceptedVisits)
    /\ \A k \in 1..Len(Conversation) :
          ComesFrom(Conversation[k],
                    yielded[AcceptedVisits[Len(AcceptedVisits) + 1 - k]])
    /\ (pc = "returned" /\ Len(AcceptedVisits) = 3 /\ ThreePlainMessages)
          => messages = << [role |-> "system", content |-> SystemContent],
                           Entry(yielded[3], yielded[3].clean_content),
                           Entry(yielded[2], yielded[2].clean_content),
                           Entry(yielded[1], yielded[1].clean_content) >>

\* C3 witness: three different plain human messages were visited and
\* accepted, and the list was returned.
C3_Witness ==
    /\ pc = "returned"
    /\ Len(messages) = 4
    /\ ThreePlainMessages
    /\ yielded[1].clean_content # yielded[2].clean_content
    /\ yielded[2].clean_content # yielded[3].clean_content
    /\ yielded[1].clean_content # yielded[3].clean_content

\* ------------------------------------------------- commands of the chain

\* A visited message is a command the parser accepts.
IsParsedCommand(m) == IsCommand(m) /\ Parse(m.clean_content).ok

\* A visited message is a command whose own parsed arguments set the
\* use-as-system-prompt flag.
IsDirective(m) ==
    IsParsedCommand(m) /\ Parse(m.clean_content).use_as_system_prompt

\* The first index of yielded, from the newest, that holds a parsed command
\* (0 if none does).
FirstCommandIndex ==
    IF \E i \in 1..Len(yielded) : IsParsedCommand(yielded[i])
    THEN CHOOSE i \in 1..Len(yielded) :
            /\ IsParsedCommand(yielded[i])
            /\ \A j \in 1..(i - 1) : ~IsParsedCommand(yielded[j])
    ELSE 0

\* C4 as stated, for prompts that are not empty: if two visited messages M
\* (newer) and N (older) are both commands that set the use-as-system-prompt
\* flag, M being the newest such message, the system entry of the returned
\* list carries M's prompt.
C4_NewestDirectiveWins ==
    pc = "returned" =>
        \A i, j \in Visited :
            ( /\ i < j
              /\ IsDirective(yielded[i])
              /\ IsDirective(yielded[j])
              /\ \A k \in 1..(i - 1) : ~IsDirective(yielded[k])
              /\ Parse(yielded[i].clean_content).prompt # <<>>
              /\ Parse(yielded[j].clean_content).prompt # <<>> )
            => messages[1].content = Parse(yielded[i].clean_content).prompt

\* The commands visited so far all carry a prompt that is not empty.
PromptsNotEmpty ==
    \A i \in 1..Len(yielded) :
        IsParsedCommand(yielded[i]) => Parse(yielded[i].clean_content).prompt # <<>>

\* C5 as stated, for prompts that are not empty: a visited command whose own
\* parsed arguments set the flag, met while no system prompt is resolved,
\* has its prompt captured as the system prompt and contributes no entry,
\* also when a newer command without the flag is the active command; a
\* command whose own arguments do not set the flag is never captured and is
\* not skipped by this step.
C5_OwnFlagDecides ==
    [][ (pc = "body" /\ IsParsedCommand(message) /\ PromptsNotEmpty)
        => /\ (IsDirective(message) /\ ~Truthy(system_prompt))
                => /\ system_prompt' = Some(Parse(message.clean_content).prompt)
                   /\ messages' = messages
                   /\ outcomes' = Append(outcomes, "system_prompt")
           /\ ~IsDirective(message)
                => /\ system_prompt' = system_prompt
                   /\ outcomes' # Append(outcomes, "system_prompt") ]_vars

\* C6: the command returned is the parsed command of the newest command
\* visited (the first seen from the newest); once recorded it is not
\* replaced by an older message's command, and it is None exactly when no
\* visited message begins with the command prefix.
C6_FirstCommandKept ==
    (pc \in {"anext", "after_loop", "returned"} /\ yielded # <<>>) =>
        /\ (args = None) <=> (\A i \in 1..Len(yielded) : ~IsCommand(yielded[i]))
        /\ args # None =>
              /\ FirstCommandIndex # 0
              /\ args[1] = ParsedArgs(yielded[FirstCommandIndex].clean_content)

\* C6 witness: a list was returned after two commands with different
\* arguments were visited; the command returned is the newer one's.
C6_Witness ==
    /\ pc = "returned"
    /\ \E i, j \in 1..Len(yielded) :
          /\ i < j
          /\ IsParsedCommand(yielded[i])
          /\ IsParsedCommand(yielded[j])
          /\ ParsedArgs(yielded[i].clean_content) # ParsedArgs(yielded[j].clean_content)
          /\ args = Some(ParsedArgs(yielded[i].clean_content))

\* ------------------------------------------------------ the traversal

\* The fetches the iterator made, in order.
IteratorFetches ==
    LET ByIterator(f) == f.by = "iterator"
    IN  SelectSeq(fetches, ByIterator)

\* The number of fetches of the iterator that returned a message.
FetchedCount ==
    Cardinality({i \in 1..Len(IteratorFetches) : IteratorFetches[i].ok})

\* The iterator has raised StopAsyncIteration: the loop ended, and not by
\* the break of the budget check.
IteratorStopped ==
    pc \in {"after_loop", "returned"} /\ ~LastOutcomeIs("break")

\* A fetch of the iterator has failed.
IteratorFetchFailed ==
    \E i \in 1..Len(fetches) : fetches[i].by = "iterator" /\ ~fetches[i].ok

\* C7: the iterator yields the starting message first, every later message
\* is the one the reply reference of the message before it names, one per
\* successful fetch, and it stops exactly at the first message with no
\* reference or whose referenced message cannot be fetched.
C7_ReplyChainOrder ==
    /\ yielded # <<>> =>
          /\ yielded[1] = starting_message
          /\ Len(yielded) = FetchedCount + 1
          /\ message = yielded[Len(yielded)]
    /\ \A i \in 2..Len(yielded) :
          /\ yielded[i - 1].reference = Some(yielded[i].id)
          /\ IteratorFetches[i - 1] = [by |-> "iterator", id |-> yielded[i].id, ok |-> TRUE]
    /\ IteratorStopped =>
          \/ /\ yielded[Len(yielded)].reference = None
             /\ Len(IteratorFetches) = Len(yielded) - 1
          \/ /\ yielded[Len(yielded)].reference # None
             /\ Len(IteratorFetches) = Len(yielded)
             /\ IteratorFetches[Len(yielded)] =
                   [by |-> "iterator", id |-> yielded[Len(yielded)].reference[1],
                    ok |-> FALSE]

\* C7 witness: the traversal of a chain of three messages ended, the middle
\* message not being the one next in the channel.
C7_Witness ==
    /\ IteratorStopped
    /\ Len(yielded) >= 2
    /\ yielded[2].id # yielded[1].id - 1

\* C8: a fetch failure while following a reply reference ends the loop as a
\* normal end of the sequence: no exception escapes, nothing is fetched or
\* visited after it, and the list returned holds the system entry and the
\* entries of the messages accepted before the failure.
C8_FetchFailureEndsLoop ==
    IteratorFetchFailed =>
        /\ pc \in {"after_loop", "returned"}
        /\ exception = None
        /\ fetches[Len(fetches)] =
              [by |-> "iterator", id |-> yielded[Len(yielded)].reference[1],
               ok |-> FALSE]
        /\ Len(yielded) = FetchedCount + 1
        /\ Len(outcomes) = Len(yielded)
        /\ pc = "after_loop" => ENABLED Finish
        /\ pc = "returned" =>
              /\ messages[1].role = "system"
              /\ Len(messages) = 1 + Len(AcceptedVisits)

\* C8 witness: a list with two conversational entries was returned after a
\* fetch of the iterator failed.
C8_Witness ==
    /\ pc = "returned"
    /\ IteratorFetchFailed
    /\ Len(messages) >= 3

\* C9 as stated: when a visited message begins with the command prefix and
\* the parser rejects it, the compilation does not fail and the pass goes on
\* with the message as plain text.
C9_ParseFailureRecovered ==
    \A i \in Visited :
        (IsCommand(yielded[i]) /\ ~Parse(yielded[i].clean_content).ok)
        => /\ exception = None
           /\ pc # "raised"
           /\ outcomes[i] # "raise"

\* The message has no text of its own kind at all: no attachment, no embed.
IsBare(m) == m.attachments = <<>> /\ m.embeds = <<>>

\* C10 as stated: a visited message whose only content is whitespace (the
\* empty string included) and that has no attachments contributes no entry.
C10_Original ==
    \A i \in Visited :
        ( /\ IsBare(yielded[i])
          /\ (yielded[i].clean_content = <<>> \/ IsSpace(yielded[i].clean_content)) )
        => outcomes[i] # "accept"

\* C10 amended: a visited message whose extracted text is the empty string
\* (empty content, no attachments) contributes no entry; a message whose
\* content is whitespace but not empty is not filtered by this step.
C10_EmptyTextSkipped ==
    \A i \in Visited :
        (yielded[i].attachments = <<>> /\ BaseText(yielded[i]) = <<>>)
        => /\ outcomes[i] # "accept"
           /\ \A k \in 1..Len(Conversation) :
                 Conversation[k] # Entry(yielded[i], <<>>)

\* C10 witness: a list was returned for a chain with an empty message, which
\* was skipped, and an accepted one.
C10_Witness ==
    /\ pc = "returned"
    /\ Len(messages) >= 2
    /\ \E i \in Visited :
          /\ IsBare(yielded[i])
          /\ yielded[i].clean_content = <<>>
          /\ outcomes[i] = "empty"

\* ---------------------------------------------------- budget of the result

RECURSIVE SumTokens(_)
\* The estimated tokens of the contents of a list of entries.
SumTokens(list) ==
    IF list = <<>> THEN 0
    ELSE Tokens(list[1].content) + SumTokens(Tail(list))

\* C11 as stated: provided the estimate of the default system prompt is at
\* most history_token_limit, the sum of the estimates of the contents of all
\* entries returned (the system entry as emitted and the conversational
\* entries as emitted) is at most history_token_limit.
C11_EmittedWithinBudget ==
    (pc = "returned" /\ Tokens(default_system_prompt) <= history_token_limit)
        => SumTokens(messages) <= history_token_limit

\* ------------------------------------------------------ failures inside

\* Reading one of the attachments of the message fails.
HasFailingAttachment(m) ==
    \E k \in 1..Len(m.attachments) : read_attachment(m.attachments[k]).raised

\* C12 as stated: no exception escapes the text extraction: when reading or
\* decoding an attachment of a visited message fails, _get_text still
\* returns and compile_chat_history does not fail.
C12_NoExtractionError ==
    \A i \in Visited :
        HasFailingAttachment(yielded[i])
        => /\ exception = None
           /\ pc # "raised"
           /\ outcomes[i] # "raise"

\* C13 as stated: the file read_attachment saves for a PDF no longer exists
\* when read_attachment hands control back, on every exit path.
C13_TempFileRemoved == files = {}

\* C19 as stated: a failure of the fetch of a bot message by its own id, in
\* the system-announcement check, does not abort the compilation: no error
\* reaches the caller.
C19_RefetchFailureRecovered ==
    \A k \in 1..Len(fetches) :
        (fetches[k].by = "body" /\ ~fetches[k].ok)
        => /\ exception = None
           /\ pc # "raised"

\* ------------------------------------------------------- steps of the pass

\* The step records tag as the outcome of the message in the body.
Records(tag) == outcomes' = Append(outcomes, tag)

\* C14: the first time a message that is not skipped fails the budget check
\* the pass stops: the message is not included, and after the halt no older
\* message is fetched, visited or included; only the system entry is added.
C14_BudgetHalt ==
    [][ /\ Records("break")
            => /\ pc = "body"
               /\ token_count + Tokens(Extracted(message).text) > history_token_limit
               /\ pc' = "after_loop"
               /\ messages' = messages
               /\ token_count' = token_count
               /\ yielded' = yielded
               /\ message_index' = message_index
        /\ (pc = "body" /\ Records("accept"))
            => token_count + Tokens(Extracted(message).text) <= history_token_limit
        /\ LastOutcomeIs("break")
            => /\ pc' = "returned"
               /\ fetches' = fetches
               /\ yielded' = yielded
               /\ outcomes' = outcomes
               /\ token_count' = token_count
               /\ Tail(messages') = messages
               /\ messages'[1].role = "system" ]_vars

\* C14 witness: the pass halted at a message that has a reply reference, an
\* older message was there to fetch, and the list was returned with an
\* accepted entry.
C14_Witness ==
    /\ pc = "returned"
    /\ LastOutcomeIs("break")
    /\ message.reference # None
    /\ Len(messages) >= 2
    /\ \A k \in 1..Len(fetches) : fetches[k].id # message.reference[1]

\* A system announcement of the bot: a message by the bot with an embed
\* whose footer is the system tag.
IsBotAnnouncement(m) ==
    /\ m.author = bot_user_id
    /\ m.embeds # <<>>
    /\ m.embeds[1].footer = SYSTEM_TAG

\* C15: a system announcement of the bot visited while no active command is
\* recorded is excluded from the history and adds nothing to token_count;
\* once an active command is recorded such a message is no longer filtered
\* by this step (it goes on to the emptiness and budget checks).
C15_AnnouncementFilter ==
    [][ (pc = "body" /\ IsBotAnnouncement(message) /\ ~IsCommand(message))
        => /\ args = None
              => /\ Records("announcement") \/ Records("raise")
                 /\ messages' = messages
                 /\ token_count' = token_count
           /\ args # None
              => /\ Records("accept") \/ Records("break") \/ Records("empty")
                 /\ fetches' = fetches
                 /\ Records("accept")
                       => /\ messages' = <<[role |-> "assistant",
                                            content |-> message.embeds[1].description]>>
                                         \o messages
                          /\ token_count' > token_count ]_vars

\* C15 witness: an announcement was skipped before any command, and another
\* one, visited after a command, was accepted.
C15_Witness ==
    \E i, j \in Visited :
        /\ i < j
        /\ IsBotAnnouncement(yielded[i])
        /\ outcomes[i] = "announcement"
        /\ IsBotAnnouncement(yielded[j])
        /\ outcomes[j] = "accept"

\* ------------------------------------------------------ attachment notes

\* What C16 says is appended for an attachment with the content read.
ClaimedNote(content, remaining) ==
    IF content # <<>> /\ ~IsSpace(content) /\ Len(content) \div 3 <= remaining
    THEN NoteContents \o content
    ELSE IF content = <<>> \/ IsSpace(content)
    THEN NoteUnreadable
    ELSE NoteTooLarge

RECURSIVE ClaimedText(_, _, _)
\* The text C16 says _get_text returns, from the base text and the contents
\* of the attachments in order.
ClaimedText(text, atts, remaining) ==
    IF atts = <<>> THEN text
    ELSE ClaimedText(text \o ClaimedNote(read_attachment(atts[1]).text, remaining),
                     Tail(atts), remaining)

\* C16: for each attachment of an accepted message, the content is appended
\* in full, as a labelled block, if and only if it is neither empty nor
\* whitespace only and its tokens len(content) // 3 do not exceed
\* remaining_tokens; an empty or blank content gives the 'empty or
\* unreadable' note; otherwise the 'too large' note is appended and none of
\* the content.
C16_AttachmentNotes ==
    [][ (pc = "body" /\ Records("accept") /\ message.attachments # <<>>)
        => /\ Len(messages') = Len(messages) + 1
           /\ messages'[1] =
                 Entry(message,
                       ClaimedText(BaseText(message), message.attachments,
                                   history_token_limit - token_count)) ]_vars

\* C16 witness: a message with a small text file was accepted with the
\* file's content, and then a message whose file of 50 tokens did not fit the
\* remaining tokens was accepted with the 'too large' note.
C16_Witness ==
    /\ pc = "returned"
    /\ \E i, j \in Visited :
          /\ i < j
          /\ yielded[i].attachments = <<TextFile>>
          /\ outcomes[i] = "accept"
          /\ yielded[j].attachments = <<LargeTextFile>>
          /\ outcomes[j] = "accept"
          /\ messages[2].content =
                MessageFrom \o yielded[j].display_name \o <<" ", "\n", " ">>
                    \o yielded[j].clean_content \o NoteTooLarge

\* C16 witness of the other notes: a message with a blank file was accepted
\* with the 'empty or unreadable' note.
C16_BlankWitness ==
    \E i \in Visited :
        /\ yielded[i].attachments = <<BlankTextFile>>
        /\ outcomes[i] = "accept"

\* ---------------------------------------------------------- accepted entry

\* C17 as stated: the entry of an accepted message has role assistant and
\* the extracted text as content if the author is the bot, and otherwise
\* role user and content exactly "Message from {name}\n{text}": the display
\* name, one newline, the text, nothing else.
C17_Original ==
    [][ (pc = "body" /\ Records("accept"))
        => /\ Len(messages') = Len(messages) + 1
           /\ Tail(messages') = messages
           /\ (messages'[1].role = "assistant") <=> (message.author = bot_user_id)
           /\ message.author = bot_user_id
                 => messages'[1] = [role |-> "assistant",
                                    content |-> Extracted(message).text]
           /\ message.author # bot_user_id
                 => messages'[1] =
                       [role |-> "user",
                        content |-> MessageFrom \o message.display_name
                                       \o <<"\n">> \o Extracted(message).text] ]_vars

\* C17 amended: the entry of an accepted message has role assistant and the
\* extracted text as content if the author is the bot, and otherwise role
\* user and content exactly "Message from {name} \n {text}": the display
\* name, a space, one newline, a space, the text; the role is assistant if
\* and only if the author id equals the bot user id.
C17_AcceptedEntry ==
    [][ (pc = "body" /\ Records("accept"))
        => /\ Len(messages') = Len(messages) + 1
           /\ Tail(messages') = messages
           /\ (messages'[1].role = "assistant") <=> (message.author = bot_user_id)
           /\ message.author = bot_user_id
                 => messages'[1] = [role |-> "assistant",
                                    content |-> Extracted(message).text]
           /\ message.author # bot_user_id
                 => messages'[1] =
                       [role |-> "user",
                        content |-> MessageFrom \o message.display_name
                                       \o <<" ", "\n", " ">>
                                       \o Extracted(message).text] ]_vars

\* C17 witness: a list was returned with an entry of the bot and an entry of
\* a human.
C17_Witness ==
    /\ pc = "returned"
    /\ \E i, j \in 2..Len(messages) :
          /\ messages[i].role = "assistant"
          /\ messages[j].role = "user"

\* -------------------------------------------------------------- termination

\* The ids of the messages the iterator has yielded.
YieldedIds == {yielded[i].id : i \in 1..Len(yielded)}

\* The iterator has raised StopAsyncIteration or the loop was left by break.
TraversalEnded == pc \in {"after_loop", "returned", "raised"}

\* compile_chat_history has returned or its exception has left it.
Finished == pc \in {"returned", "raised"}

\* C18: on every finite acyclic reply chain and under every pattern of fetch
\* successes and failures the traversal eventually ends and
\* compile_chat_history eventually finishes; every call of the iterator
\* after the first performs at most one fetch, never of a message yielded
\* before, and every message it yields after the first comes from exactly
\* one fetch of a message not yielded before.
C18_Termination ==
    /\ <>TraversalEnded
    /\ <>Finished
    /\ [][ (pc = "anext" /\ message_index # 0)
           => /\ \/ fetches' = fetches
                 \/ /\ Len(fetches') = Len(fetches) + 1
                    /\ SubSeq(fetches', 1, Len(fetches)) = fetches
                    /\ fetches'[Len(fetches')].by = "iterator"
                    /\ fetches'[Len(fetches')].id \notin YieldedIds
              /\ yielded' # yielded
                    => /\ Len(yielded') = Len(yielded) + 1
                       /\ fetches' = Append(fetches, [by |-> "iterator",
                                                      id |-> yielded'[Len(yielded')].id,
                                                      ok |-> TRUE])
                       /\ yielded'[Len(yielded')].id \notin YieldedIds ]_vars

\* C18 witness: the pass has returned after a traversal of the whole chain,
\* three messages long, that ended at a message with no reference.
C18_Witness ==
    /\ pc = "returned"
    /\ Len(yielded) = MaxId
    /\ Len(outcomes) = MaxId
    /\ FetchedCount = MaxId - 1
    /\ message.reference = None

\* -------------------------------------------------------------- frame

\* The step is an iteration of the pass that skips its message.
RecordsSkip ==
    Records("system_prompt") \/ Records("announcement") \/ Records("empty")

\* C20: an iteration that skips its message (captured system-prompt
\* directive, bot system announcement, empty extracted text) leaves
\* token_count and the message list unchanged; a recorded active command and
\* a resolved non-empty system prompt are never changed afterwards; within
\* the loop only the accept step changes token_count or the list.
C20_Frame ==
    [][ /\ RecordsSkip => (token_count' = token_count /\ messages' = messages)
        /\ args # None => args' = args
        /\ Truthy(system_prompt) => system_prompt' = system_prompt
        /\ (pc \in {"anext", "body"}
              /\ (token_count' # token_count \/ messages' # messages))
           => (pc = "body" /\ Records("accept")) ]_vars

\* C20 witness: the newest message is a captured directive, the reply before
\* it is a command with other arguments that is accepted as a message, and
\* the oldest is empty; the list holds the system entry and that one entry.
C20_Witness ==
    /\ pc = "returned"
    /\ outcomes = <<"system_prompt", "accept", "empty">>
    /\ Truthy(system_prompt)
    /\ IsDirective(yielded[2])
    /\ args = Some(ParsedArgs(yielded[1].clean_content))
    /\ ParsedArgs(yielded[2].clean_content) # args[1]
    /\ system_prompt = Some(args[1].prompt)
    /\ Len(messages) = 2
    /\ token_count = Tokens(default_system_prompt) + Tokens(BaseText(yielded[2]))

====
